---- MODULE Spec2Model ----
(***************************************************************************)
(* State-machine model of litgpt/model.py: the GPT module's active-length  *)
(* setter, rotary / alibi positional caches, causal mask cache, per-layer  *)
(* KV-caches and the forward pass (full pass and incremental decoding),    *)
(* together with the NormHead output head and the mixture-of-experts mlp.  *)
(* Tensors are modelled by their shape, device/dtype and, where a claim    *)
(* depends on the values, by symbolic terms (Node) that record how each    *)
(* value was computed.                                                     *)
(***************************************************************************)
EXTENDS Integers, Sequences, FiniteSets, TLC

\* ---------------------------------------------------------------- bounds
BlockSize == 2
NLayer == 2
MaxNHead == 2
VocabSize == 2
MaxNormalize == 6
NExpert == 3

\* config.head_size of the modelled configurations
HeadSize == 4

\* ------------------------------------------------------------- optionals
\* Python's None / a present value, as a sequence of length 0 / 1
None == <<>>
Some(x) == <<x>>
IsNone(o) == o = <<>>
Get(o) == o[1]

Range(s) == {s[i] : i \in DOMAIN s}

\* x = ...; then F(x): a local variable computed once
Bind(x, F(_)) == F(x)

\* ----------------------------------------------------------------- errors
\* one tag per raise site
ErrCannotAttend == "ValueError: Cannot attend to value, block size is only block_size"
ErrCannotForward == "ValueError: Cannot forward sequence of length T"
ErrGptNeedKvCache == "TypeError: You need to call gpt.set_kv_cache() [GPT.forward]"
ErrAttnNeedKvCache == "TypeError: You need to call gpt.set_kv_cache() [CausalSelfAttention.forward]"
ErrPassRopeCacheLength == "TypeError: Please pass the rope_cache_length=gpt.cos.size(-1) value"
ErrIndexOutOfRange == "IndexError: index out of range in self"
ErrNoCosAttribute == "AttributeError: 'GPT' object has no attribute 'cos'"
NoErr == "none"

\* the error classes the specification names
SequenceTooLong == {ErrCannotAttend, ErrCannotForward}
CacheNotInitialized == {ErrGptNeedKvCache, ErrAttnNeedKvCache}
MissingRopeCacheLength == {ErrPassRopeCacheLength}

\* ------------------------------------------------------------------ config
Devices == {"meta", "cpu"}
DTypes == {"float32", "float16"}

\* Config.rope_n_elem = int(rotary_percentage * head_size); percentage in %
rope_n_elem(pct) == (pct * HeadSize) \div 100

Configs ==
    { [position_emb_type |-> "rope", rotary_percentage |-> pct, n_head |-> h,
       n_query_groups |-> h, head_size |-> HeadSize, rope_n_elem |-> rope_n_elem(pct),
       block_size |-> BlockSize, n_layer |-> NLayer, padded_vocab_size |-> VocabSize]
      : pct \in {50, 100}, h \in {MaxNHead} }
    \cup
    { [position_emb_type |-> "alibi", rotary_percentage |-> 100, n_head |-> h,
       n_query_groups |-> h, head_size |-> HeadSize, rope_n_elem |-> rope_n_elem(100),
       block_size |-> BlockSize, n_layer |-> NLayer, padded_vocab_size |-> VocabSize]
      : h \in 1..MaxNHead }

Layers == 1..NLayer

\* ------------------------------------------------------------ value terms
\* a tensor element (vector) as the term that computed it
Node(op, n, kids) == [op |-> op, n |-> n, kids |-> kids]
Zero == Node("zero", 0, <<>>)

\* ------------------------------------------------------ positional caches
\* build_rope_cache: seq_len rows; idx_theta = outer(seq_idx, theta).repeat(1, 2),
\* theta has ceil(n_elem / 2) entries; row p holds the angles of position p
build_rope_cache(seq_len, n_elem, device) ==
    LET cols == 2 * ((n_elem + 1) \div 2)
        tab(f) == [device |-> device, cols |-> cols,
                   rows |-> [i \in 1..seq_len |-> Node(f, i - 1, <<>>)]]
    IN  [cos |-> tab("cos"), sin |-> tab("sin")]

\* GPT.rope_cache: built for self.max_seq_length
rope_cache(cfg, msl, device) == build_rope_cache(msl, cfg.rope_n_elem, device)

\* alibi.build_alibi_mask(n_head, max_len): shape (heads, max_len, max_len)
build_alibi_mask(n_head, max_len) == [shape |-> <<n_head, max_len, max_len>>]

\* tensor.size(d) for the tables above
cos_size0(t) == Len(t.rows)
cos_size_last(t) == t.cols

\* (the mask without torch.tril: every slot visible)
build_mask_cache_ones(max_seq_length) ==
    [i \in 1..max_seq_length |-> [j \in 1..max_seq_length |-> TRUE]]

\* build_mask_cache: tril(ones(L, L)); row i, column j (0-based) is j <= i
build_mask_cache(max_seq_length) ==
    [i \in 1..max_seq_length |-> [j \in 1..max_seq_length |-> j <= i]]

\* mask_cache.size(3)
mask_size3(m) == IF Len(m) = 0 THEN 0 ELSE Len(m[1])

\* --------------------------------------------------- active-length setter
\* if value > self.config.block_size: raise ValueError
exceeds_block_size_lax(cfg, value) == value > cfg.block_size + 1
exceeds_block_size(cfg, value) == value > cfg.block_size

\* elif value != self.cos.size(0)
rope_stale_by_width(tab, value) == value # cos_size_last(tab)
rope_stale(tab, value) == value # cos_size0(tab)

\* GPT.max_seq_length setter on the attributes
\* self = [max_seq_length, cos, sin, future_mask]; default_device is the
\* ambient torch default device used when rope_cache() gets device=None
max_seq_length_setter(cfg, self, value, default_device) ==
    IF exceeds_block_size(cfg, value)
    THEN [err |-> ErrCannotAttend, self |-> self]
    ELSE LET s1 == [self EXCEPT !.max_seq_length = value] IN
      IF cfg.position_emb_type = "rope" THEN
        IF IsNone(self.cos) THEN
            LET rc == rope_cache(cfg, value, default_device)
            IN  [err |-> NoErr, self |-> [s1 EXCEPT !.cos = Some(rc.cos), !.sin = Some(rc.sin)]]
        ELSE IF Get(self.cos).device = "meta" THEN
            LET rc == rope_cache(cfg, value, default_device)
            IN  [err |-> NoErr, self |-> [s1 EXCEPT !.cos = Some(rc.cos), !.sin = Some(rc.sin)]]
        ELSE IF rope_stale(Get(self.cos), value) THEN
            LET rc == rope_cache(cfg, value, Get(self.cos).device)
            IN  [err |-> NoErr, self |-> [s1 EXCEPT !.cos = Some(rc.cos), !.sin = Some(rc.sin)]]
        ELSE [err |-> NoErr, self |-> s1]
      ELSE IF cfg.position_emb_type = "alibi" THEN
        IF IsNone(self.future_mask) THEN
            [err |-> NoErr,
             self |-> [s1 EXCEPT !.future_mask = Some(build_alibi_mask(cfg.n_head, value))]]
        ELSE IF value # Get(self.future_mask).shape[1] THEN
            [err |-> NoErr,
             self |-> [s1 EXCEPT !.future_mask = Some(build_alibi_mask(cfg.n_head, value))]]
        ELSE [err |-> NoErr, self |-> s1]
      ELSE [err |-> NoErr, self |-> s1]

\* ------------------------------------------------------------ KV-cache
\* KVCache.__init__: zero buffers of k_shape / v_shape; slots along dim 2;
\* dtype=None is the default dtype
KVCache(k_shape, v_shape, dtype) ==
    [k_shape |-> k_shape, v_shape |-> v_shape,
     dtype |-> IF IsNone(dtype) THEN "float32" ELSE Get(dtype),
     k |-> [s \in 1..k_shape[3] |-> Zero],
     v |-> [s \in 1..v_shape[3] |-> Zero]]

\* CausalSelfAttention.build_kv_cache; rope_cache_length is optional
build_kv_cache(cfg, batch_size, max_seq_length, rope_cache_length, dtype) ==
    LET heads == IF cfg.n_query_groups = 1 THEN 1 ELSE cfg.n_head
        v_shape == <<batch_size, heads, max_seq_length, cfg.head_size>>
    IN  IF IsNone(rope_cache_length) /\ cfg.position_emb_type = "rope"
        THEN IF cfg.rotary_percentage # 100
             THEN [err |-> ErrPassRopeCacheLength, cache |-> None]
             ELSE [err |-> NoErr, cache |-> Some(KVCache(v_shape, v_shape, dtype))]
        ELSE LET last_dim == IF cfg.position_emb_type = "rope"
                             THEN Get(rope_cache_length) + cfg.head_size - cfg.rope_n_elem
                             ELSE cfg.head_size
                 k_shape == <<batch_size, heads, max_seq_length, last_dim>>
             IN  [err |-> NoErr, cache |-> Some(KVCache(k_shape, v_shape, dtype))]

\* precision change of one stored element: float32 -> float16 rounds, and a
\* value that is zero or already rounded is kept
Half(x) == IF x.op \in {"zero", "half"} THEN x ELSE Node("half", 0, <<x>>)

\* tensor.to(dtype) of a buffer that currently has dtype from
tensor_to(buf, from, dtype) ==
    IF from = "float32" /\ dtype = "float16"
    THEN [s \in DOMAIN buf |-> Half(buf[s])]
    ELSE buf

\* (index_add_ in place of index_copy_: the source is accumulated)
index_add(buf, input_pos, src) ==
    [s \in DOMAIN buf |->
        IF \E i \in DOMAIN input_pos : input_pos[i] + 1 = s
        THEN Node("add", 0, <<buf[s], src[CHOOSE i \in DOMAIN input_pos : input_pos[i] + 1 = s]>>)
        ELSE buf[s]]

\* buf.index_copy_(2, input_pos, src): slot input_pos[i] := src[i]
\* (positions are 0-based, slots 1-based; positions are distinct)
index_copy(buf, input_pos, src) ==
    [s \in DOMAIN buf |->
        IF \E i \in DOMAIN input_pos : input_pos[i] + 1 = s
        THEN src[CHOOSE i \in DOMAIN input_pos : input_pos[i] + 1 = s]
        ELSE buf[s]]

\* KVCache.forward: cast the buffers to the incoming dtype, write, return them
KVCache_forward(c, input_pos, k, v, dtype) ==
    Bind(index_copy(tensor_to(c.k, c.dtype, dtype), input_pos, k), LAMBDA k2 :
    Bind(index_copy(tensor_to(c.v, c.dtype, dtype), input_pos, v), LAMBDA v2 :
        [cache |-> [c EXCEPT !.k = k2, !.v = v2, !.dtype = dtype], k |-> k2, v |-> v2]))

\* ------------------------------------------------------------ attention
\* torch.max(input_pos) + 1
max_pos_of(input_pos) ==
    1 + CHOOSE m \in Range(input_pos) : \A p \in Range(input_pos) : p <= m

ErrShape == "RuntimeError: shape mismatch"

\* activations computed in float16 are float16 values
act(x, dtype) == IF dtype = "float16" THEN Half(x) ELSE x

\* apply_rope: x * cos + rotated(x) * sin with the given table rows
apply_rope(x, cos, sin) == Node("rope", 0, <<x, cos, sin>>)

\* ascending sequence of the indices j in 1..n that satisfy Test
VisibleIdx(n, Test(_)) == SelectSeq([j \in 1..n |-> j], Test)

\* boolean attn_mask rows as mask entries (True takes part, no bias)
bool_mask(rows) ==
    [i \in DOMAIN rows |-> [j \in DOMAIN rows[i] |-> [vis |-> rows[i][j], bias |-> 0]]]

\* attn_mask must be broadcastable to the (T, S) attention weights: an extent
\* of the mask is the extent of the weights, or 1
broadcastable(m, T, S) ==
    /\ Len(m) \in {1, T}
    /\ \A i \in DOMAIN m : Len(m[i]) \in {1, S}

\* the mask as torch expands it: an extent of 1 is repeated
broadcast(m, T, S) ==
    [i \in 1..T |->
        LET row == m[IF Len(m) = 1 THEN 1 ELSE i]
        IN  [j \in 1..S |-> row[IF Len(row) = 1 THEN 1 ELSE j]]]

\* CausalSelfAttention.scaled_dot_product_attention: is_causal = mask is None;
\* the result for query i is a function of q[i] and of the visible (k, v) pairs
scaled_dot_product_attention(l, q, k, v, mask) ==
    [i \in DOMAIN q |->
        LET Vis(j) == IF IsNone(mask) THEN j <= i ELSE Get(mask)[i][j].vis
            js == VisibleIdx(Len(k), Vis)
            Bias(j) == IF IsNone(mask) THEN 0 ELSE Get(mask)[i][j].bias
        IN  Node("sdpa", l,
                 <<q[i]>> \o [n \in DOMAIN js |-> Node("kv", Bias(js[n]), <<k[js[n]], v[js[n]]>>)])]

\* CausalSelfAttention.forward for layer l on the normalized inputs x
\* (one term per position); cos/sin/mask/input_pos are optional
CausalSelfAttention_forward(cfg, l, kv_cache, x, cos, sin, mask, input_pos, dtype) ==
    LET T == Len(x)
        rope == cfg.position_emb_type = "rope"
        Fail(e) == [err |-> e, kv_cache |-> kv_cache, y |-> <<>>]
    IN  IF rope /\ Len(Get(cos)) # T THEN Fail(ErrShape)
        ELSE
        Bind([i \in 1..T |-> act(Node("q", l, <<x[i]>>), dtype)], LAMBDA q0 :
        Bind([i \in 1..T |-> act(Node("k", l, <<x[i]>>), dtype)], LAMBDA k0 :
        Bind([i \in 1..T |-> act(Node("v", l, <<x[i]>>), dtype)], LAMBDA v :
        Bind(IF rope THEN [i \in 1..T |-> apply_rope(q0[i], Get(cos)[i], Get(sin)[i])] ELSE q0,
             LAMBDA q :
        Bind(IF rope THEN [i \in 1..T |-> apply_rope(k0[i], Get(cos)[i], Get(sin)[i])] ELSE k0,
             LAMBDA k :
            IF ~IsNone(input_pos) /\ IsNone(kv_cache) THEN Fail(ErrAttnNeedKvCache)
            ELSE
            \* k, v = self.kv_cache(input_pos, k, v)
            Bind(IF IsNone(input_pos)
                 THEN [cache |-> kv_cache, k |-> k, v |-> v]
                 ELSE Bind(KVCache_forward(Get(kv_cache), Get(input_pos), k, v, dtype),
                           LAMBDA r : [cache |-> Some(r.cache), k |-> r.k, v |-> r.v]),
                 LAMBDA w :
            \* baichuan2-13b: keys and values cut to max_pos
            Bind(IF ~rope /\ ~IsNone(input_pos)
                 THEN [k |-> SubSeq(w.k, 1, max_pos_of(Get(input_pos))),
                       v |-> SubSeq(w.v, 1, max_pos_of(Get(input_pos)))]
                 ELSE [k |-> w.k, v |-> w.v],
                 LAMBDA kv :
                IF ~IsNone(mask) /\ ~broadcastable(Get(mask), T, Len(kv.k))
                THEN Fail(ErrShape)
                ELSE [err |-> NoErr, kv_cache |-> w.cache,
                      y |-> scaled_dot_product_attention(l, q, kv.k, kv.v,
                                IF IsNone(mask) THEN None
                                ELSE Some(broadcast(Get(mask), T, Len(kv.k))))])))))))

\* Block.forward: norm_1, attention, then mlp and residuals; the new residual
\* stream at a position is a function of the old one and the attention output
Block_forward(cfg, l, kv_cache, x, cos, sin, mask, input_pos, dtype) ==
    Bind(CausalSelfAttention_forward(cfg, l, kv_cache,
             [i \in DOMAIN x |-> Node("norm_1", l, <<x[i]>>)], cos, sin, mask, input_pos, dtype),
         LAMBDA a :
        IF a.err # NoErr
        THEN [err |-> a.err, kv_cache |-> a.kv_cache, x |-> <<>>]
        ELSE [err |-> NoErr, kv_cache |-> a.kv_cache,
              x |-> [i \in DOMAIN x |-> Node("block", l, <<x[i], a.y[i]>>)]])

\* for block in self.transformer.h: x = block(x, cos, sin, mask, input_pos);
\* caches is the function layer -> optional KVCache; stops at the first error
RECURSIVE run_blocks(_, _, _, _, _, _, _, _, _)
run_blocks(cfg, l, caches, x, cos, sin, mask, input_pos, dtype) ==
    IF l > cfg.n_layer THEN [err |-> NoErr, kv_cache |-> caches, x |-> x]
    ELSE Bind(Block_forward(cfg, l, caches[l], x, cos, sin, mask, input_pos, dtype),
              LAMBDA b :
             IF b.err # NoErr
             THEN [err |-> b.err, kv_cache |-> [caches EXCEPT ![l] = b.kv_cache], x |-> <<>>]
             ELSE run_blocks(cfg, l + 1, [caches EXCEPT ![l] = b.kv_cache], b.x,
                             cos, sin, mask, input_pos, dtype))

\* ------------------------------------------------------------- GPT.forward
ErrMetaCopy == "NotImplementedError: Cannot copy out of meta tensor; no data!"

\* rows of t picked by 0-based positions (index_select(0, input_pos))
index_select(rows, input_pos) == [i \in DOMAIN input_pos |-> rows[input_pos[i] + 1]]

\* t[:n] : slicing clips to the available rows
slice(rows, n) == SubSeq(rows, 1, IF n < Len(rows) THEN n ELSE Len(rows))

\* self.future_mask[:n_head, :max_pos, :max_pos]: entry (i, j) of a head is
\* the distance bias for j <= i and -inf above the diagonal
alibi_slice(future_mask, max_pos) ==
    LET m == IF max_pos < future_mask.shape[2] THEN max_pos ELSE future_mask.shape[2]
    IN  [i \in 1..m |-> [j \in 1..m |-> [vis |-> j <= i, bias |-> i - j]]]

\* alibi.update_attention_mask: the boolean causal mask combined with the
\* bias mask into the additive mask of the last T query rows
update_alibi_attention_mask(T, mask, alibi_mask) ==
    LET n == Len(mask) IN
    [i \in 1..T |->
        [j \in 1..n |-> [vis |-> mask[n - T + i][j] /\ alibi_mask[n - T + i][j].vis,
                         bias |-> alibi_mask[n - T + i][j].bias]]]

final_head(x) == [i \in DOMAIN x |-> Node("lm_head", 0, <<Node("ln_f", 0, <<x[i]>>)>>)]

\* (the two checks in the other order)
forward_precheck_cache_first(self, T, input_pos) ==
    IF ~IsNone(input_pos) /\ IsNone(self.mask_cache) THEN ErrGptNeedKvCache
    ELSE IF self.max_seq_length < T THEN ErrCannotForward
    ELSE NoErr

\* (the length check off by one)
forward_precheck_off_by_one(self, T, input_pos) ==
    IF self.max_seq_length + 1 < T THEN ErrCannotForward
    ELSE IF ~IsNone(input_pos) /\ IsNone(self.mask_cache) THEN ErrGptNeedKvCache
    ELSE NoErr

\* the checks GPT.forward makes before it computes anything: the length of
\* the sequence first, then, with input_pos given, the presence of mask_cache
forward_precheck(self, T, input_pos) ==
    IF self.max_seq_length < T THEN ErrCannotForward
    ELSE IF ~IsNone(input_pos) /\ IsNone(self.mask_cache) THEN ErrGptNeedKvCache
    ELSE NoErr

\* x = wte(idx); for block in h: x = block(...); lm_head(ln_f(x))
run_model(cfg, self, idx, cos, sin, mask, input_pos, dtype) ==
    Bind(run_blocks(cfg, 1, self.kv_cache,
                    [i \in DOMAIN idx |-> act(Node("wte", idx[i], <<>>), dtype)],
                    cos, sin, mask, input_pos, dtype),
         LAMBDA r :
        IF r.err # NoErr THEN [err |-> r.err, kv_cache |-> r.kv_cache, out |-> <<>>]
        ELSE [err |-> NoErr, kv_cache |-> r.kv_cache, out |-> final_head(r.x)])

\* the cos, sin and mask GPT.forward hands to the blocks, or the error it
\* raises on the way
forward_tables(cfg, self, T, input_pos) ==
    LET Fail(e) == [err |-> e, cos |-> None, sin |-> None, mask |-> None]
        rope == cfg.position_emb_type = "rope"
    IN
    IF ~IsNone(input_pos) THEN
        IF rope THEN
            IF Get(self.cos).device = "meta" THEN Fail(ErrMetaCopy)
            ELSE IF \E p \in Range(Get(input_pos)) : p >= cos_size0(Get(self.cos))
                 THEN Fail(ErrIndexOutOfRange)
            ELSE IF \E p \in Range(Get(input_pos)) : p >= Len(Get(self.mask_cache))
                 THEN Fail(ErrIndexOutOfRange)
            ELSE [err |-> NoErr,
                  cos |-> Some(index_select(Get(self.cos).rows, Get(input_pos))),
                  sin |-> Some(index_select(Get(self.sin).rows, Get(input_pos))),
                  mask |-> Some(bool_mask(index_select(Get(self.mask_cache), Get(input_pos))))]
        ELSE
            Bind(max_pos_of(Get(input_pos)), LAMBDA max_pos :
            Bind(slice(Get(self.mask_cache), max_pos), LAMBDA m0 :
            Bind([i \in DOMAIN m0 |-> slice(m0[i], max_pos)], LAMBDA m1 :
            Bind(alibi_slice(Get(self.future_mask), max_pos), LAMBDA alibi_mask :
                IF Len(alibi_mask) # Len(m1) \/ Len(m1) < T THEN Fail(ErrShape)
                ELSE [err |-> NoErr, cos |-> None, sin |-> None,
                      mask |-> Some(update_alibi_attention_mask(T, m1, alibi_mask))]))))
    ELSE
        IF rope THEN
            IF Get(self.cos).device = "meta" THEN Fail(ErrMetaCopy)
            ELSE [err |-> NoErr, cos |-> Some(slice(Get(self.cos).rows, T)),
                  sin |-> Some(slice(Get(self.sin).rows, T)), mask |-> None]
        ELSE [err |-> NoErr, cos |-> None, sin |-> None,
              mask |-> Some(alibi_slice(Get(self.future_mask), T))]

\* GPT.forward(idx, input_pos) on self = [max_seq_length, cos, sin,
\* future_mask, mask_cache, kv_cache]; idx is one batch row of token ids on a
\* real device; returns the error, the layers' caches and the scores
GPT_forward(cfg, self, idx, input_pos, dtype) ==
    Bind(forward_precheck(self, Len(idx), input_pos), LAMBDA pre :
        IF pre # NoErr THEN [err |-> pre, kv_cache |-> self.kv_cache, out |-> <<>>]
        ELSE Bind(forward_tables(cfg, self, Len(idx), input_pos), LAMBDA t :
            IF t.err # NoErr THEN [err |-> t.err, kv_cache |-> self.kv_cache, out |-> <<>>]
            ELSE run_model(cfg, self, idx, t.cos, t.sin, t.mask, input_pos, dtype)))

\* ------------------------------------------------------------------ state
VARIABLES
    config,          \* self.config
    max_seq_length,  \* self._max_seq_length
    cos,             \* self.cos (absent for alibi)
    sin,             \* self.sin
    future_mask,     \* self.future_mask (absent for rope)
    mask_cache,      \* self.mask_cache
    kv_cache,        \* block.attn.kv_cache of every layer
    lm_head,         \* self.lm_head when it is a NormHead: weight, first_flag, training
    last,            \* the last call: its arguments, error and result
    session,         \* the tokens fed in order since the last cache setup
    unlatched        \* no inference-mode call of lm_head yet since construction
                     \* or since its mode flag was last training

vars == <<config, max_seq_length, cos, sin, future_mask, mask_cache, kv_cache, lm_head,
          last, session, unlatched>>

Call(op, args, err, out) == [op |-> op, args |-> args, err |-> err, out |-> out]

NoSession == [inorder |-> FALSE, toks |-> <<>>, dtype |-> "float32"]

\* nn.functional.normalize(w): the rows of w scaled to unit length; n counts
\* the normalizations the stored weight has gone through
normalize(w) == Node("normalize", w.n + 1, <<>>)

\* NormHead.__init__: a freshly initialized weight, first_flag = True; a new
\* nn.Module is in training mode
NormHead_init ==
    [weight |-> Node("weight", 0, <<>>), first_flag |-> TRUE, training |-> TRUE]

\* GPT.__init__: self.max_seq_length = self.config.block_size runs the setter
\* on an object without cos / future_mask; then self.mask_cache = None and
\* every attention unit starts with kv_cache = None
GPT_init(cfg, default_device) ==
    LET blank == [max_seq_length |-> 0, cos |-> None, sin |-> None, future_mask |-> None]
        r == max_seq_length_setter(cfg, blank, cfg.block_size, default_device)
    IN  /\ config = cfg
        /\ max_seq_length = r.self.max_seq_length
        /\ cos = r.self.cos
        /\ sin = r.self.sin
        /\ future_mask = r.self.future_mask
        /\ mask_cache = None
        /\ kv_cache = [l \in 1..cfg.n_layer |-> None]
        /\ lm_head = NormHead_init
        /\ last = Call("__init__", [value |-> cfg.block_size], r.err, <<>>)
        /\ session = NoSession
        /\ unlatched = TRUE

Init ==
    \E cfg \in Configs, dev \in Devices :
        /\ cfg.position_emb_type = "alibi" => dev = "cpu"
        /\ GPT_init(cfg, dev)

\* ------------------------------------------------------------ cache setup
\* for block in self.transformer.h: block.attn.kv_cache = build_kv_cache(...);
\* an error in layer l leaves the layers before l assigned
RECURSIVE build_all(_, _, _, _, _, _, _)
build_all(cfg, l, caches, batch_size, max_len, rope_cache_length, dtype) ==
    IF l > cfg.n_layer THEN [err |-> NoErr, kv_cache |-> caches]
    ELSE LET b == build_kv_cache(cfg, batch_size, max_len, rope_cache_length, dtype)
         IN  IF b.err # NoErr THEN [err |-> b.err, kv_cache |-> caches]
             ELSE build_all(cfg, l + 1, [caches EXCEPT ![l] = b.cache], batch_size,
                            max_len, rope_cache_length, dtype)

\* (no default: the caller's rope_cache_length is passed on as given)
rope_cache_length_as_given(cfg, self, rope_cache_length) == rope_cache_length

\* if rope_cache_length is None and rope: rope_cache_length = self.cos.size(-1)
default_rope_cache_length(cfg, self, rope_cache_length) ==
    IF IsNone(rope_cache_length) /\ cfg.position_emb_type = "rope"
    THEN Some(cos_size_last(Get(self.cos)))
    ELSE rope_cache_length

\* (the mask rebuilt only when absent)
mask_absent(mask, msl) == IsNone(mask)

\* if self.mask_cache is None or self.mask_cache.size(3) != max_seq_length
mask_stale(mask, msl) == IsNone(mask) \/ mask_size3(Get(mask)) # msl

\* GPT.set_kv_cache
GPT_set_kv_cache(cfg, self, batch_size, rope_cache_length, dtype) ==
    LET rcl == default_rope_cache_length(cfg, self, rope_cache_length)
        msl == self.max_seq_length
        b == build_all(cfg, 1, self.kv_cache, batch_size, msl, rcl, dtype)
    IN  IF b.err # NoErr
        THEN [err |-> b.err, kv_cache |-> b.kv_cache, mask_cache |-> self.mask_cache]
        ELSE [err |-> NoErr, kv_cache |-> b.kv_cache,
              mask_cache |-> IF mask_stale(self.mask_cache, msl)
                             THEN Some(build_mask_cache(msl))
                             ELSE self.mask_cache]

\* (teardown that forgets the shared mask)
GPT_clear_kv_cache_keeps_mask(cfg, self) ==
    [mask_cache |-> self.mask_cache, kv_cache |-> [l \in 1..cfg.n_layer |-> None]]

\* (teardown that drops the mask and the first layer's cache only)
GPT_clear_kv_cache_first_layer(cfg, self) ==
    [mask_cache |-> None,
     kv_cache |-> [l \in 1..cfg.n_layer |-> IF l = 1 THEN None ELSE self.kv_cache[l]]]

\* GPT.clear_kv_cache
GPT_clear_kv_cache(cfg, self) ==
    [mask_cache |-> None, kv_cache |-> [l \in 1..cfg.n_layer |-> None]]

\* ----------------------------------------------------------------- actions
Self ==
    [max_seq_length |-> max_seq_length, cos |-> cos, sin |-> sin,
     future_mask |-> future_mask, mask_cache |-> mask_cache, kv_cache |-> kv_cache]

\* gpt.max_seq_length = value
SetMaxSeqLength(value, default_device) ==
    LET r == max_seq_length_setter(config,
                 [max_seq_length |-> max_seq_length, cos |-> cos, sin |-> sin,
                  future_mask |-> future_mask], value, default_device)
    IN  /\ max_seq_length' = r.self.max_seq_length
        /\ cos' = r.self.cos
        /\ sin' = r.self.sin
        /\ future_mask' = r.self.future_mask
        /\ last' = Call("max_seq_length",
                        [value |-> value, default_device |-> default_device], r.err, <<>>)
        /\ UNCHANGED <<lm_head, unlatched, config, mask_cache, kv_cache, session>>

\* gpt.reset_parameters()
ResetParameters ==
    /\ IF IsNone(cos)
       THEN /\ last' = Call("reset_parameters", [value |-> 0], ErrNoCosAttribute, <<>>)
            /\ UNCHANGED <<cos, sin>>
       ELSE LET rc == rope_cache(config, max_seq_length, Get(cos).device)
            IN  /\ cos' = Some(rc.cos)
                /\ sin' = Some(rc.sin)
                /\ last' = Call("reset_parameters", [value |-> 0], NoErr, <<>>)
    /\ UNCHANGED <<lm_head, unlatched, config, max_seq_length, future_mask, mask_cache, kv_cache, session>>

\* gpt.set_kv_cache(batch_size, rope_cache_length, dtype=dtype)
SetKvCache(batch_size, rope_cache_length, dtype) ==
    LET r == GPT_set_kv_cache(config, Self, batch_size, rope_cache_length, dtype)
    IN  /\ kv_cache' = r.kv_cache
        /\ mask_cache' = r.mask_cache
        /\ last' = Call("set_kv_cache",
                        [batch_size |-> batch_size, rope_cache_length |-> rope_cache_length,
                         dtype |-> dtype], r.err, <<>>)
        /\ session' = IF r.err = NoErr /\ batch_size = 1
                      THEN [inorder |-> TRUE, toks |-> <<>>, dtype |-> "float32"]
                      ELSE NoSession
        /\ UNCHANGED <<lm_head, unlatched, config, max_seq_length, cos, sin, future_mask>>

\* gpt.clear_kv_cache()
ClearKvCache ==
    LET r == GPT_clear_kv_cache(config, Self)
    IN  /\ kv_cache' = r.kv_cache
        /\ mask_cache' = r.mask_cache
        /\ last' = Call("clear_kv_cache", [value |-> 0], NoErr, <<>>)
        /\ session' = NoSession
        /\ UNCHANGED <<lm_head, unlatched, config, max_seq_length, cos, sin, future_mask>>

\* block.attn.build_kv_cache(...) called directly on an attention unit; it
\* returns the cache (or raises) and assigns nothing
BuildKvCacheCall(rope_cache_length) ==
    LET r == build_kv_cache(config, 1, max_seq_length, rope_cache_length, None)
    IN  /\ last' = Call("build_kv_cache",
                        [batch_size |-> 1, rope_cache_length |-> rope_cache_length,
                         dtype |-> None], r.err, r.cache)
        /\ UNCHANGED <<lm_head, unlatched, config, max_seq_length, cos, sin, future_mask, mask_cache, kv_cache, session>>

\* the positions len, len + 1, ... that continue a session of len tokens
NextPositions(len, T) == [i \in 1..T |-> len + i - 1]

\* gpt(idx, input_pos) with activations of the given dtype
Forward(idx, input_pos, dtype) ==
    Bind(GPT_forward(config, Self, idx, input_pos, dtype), LAMBDA r :
        /\ kv_cache' = r.kv_cache
        /\ last' = Call("forward", [idx |-> idx, T |-> Len(idx), input_pos |-> input_pos,
                                    dtype |-> dtype],
                        r.err, r.out)
        /\ session' = IF /\ r.err = NoErr
                         /\ session.inorder
                         /\ input_pos = Some(NextPositions(Len(session.toks), Len(idx)))
                         /\ (session.toks = <<>> \/ session.dtype = dtype)
                      THEN [inorder |-> TRUE, toks |-> session.toks \o idx, dtype |-> dtype]
                      ELSE IF r.kv_cache = kv_cache THEN session
                      ELSE NoSession
        /\ UNCHANGED <<lm_head, unlatched, config, max_seq_length, cos, sin, future_mask, mask_cache>>)

\* ------------------------------------------------------------------ inputs
Tokens == 0..(VocabSize - 1)
IdxSeqs == UNION {[1..n -> Tokens] : n \in 1..BlockSize}
\* one token id repeated, up to one token more than block_size
IdxLens == {[i \in 1..n |-> 0] : n \in 1..(BlockSize + 1)}

\* position indices: strictly ascending absolute positions, one per token
PosSeqs(n) ==
    {p \in [1..n -> 0..BlockSize] : \A i \in 1..(n - 1) : p[i] < p[i + 1]}

\* the positions written lie inside the caches that exist
InCaches(pos) ==
    \A l \in DOMAIN kv_cache :
        ~IsNone(kv_cache[l]) => \A p \in Range(pos) : p < Len(Get(kv_cache[l]).k)

RopeCacheLengths == {None, Some(HeadSize)}
CacheDTypes == {None, Some("float16")}

FullForward(idxs) == \E idx \in idxs : Forward(idx, None, "float32")

IncrementalForward(idxs) ==
    \E idx \in idxs :
        \E pos \in PosSeqs(Len(idx)) :
            /\ config.position_emb_type = "alibi" => InCaches(pos)
            /\ Forward(idx, Some(pos), "float32")

Next ==
    \/ \E value \in 1..(BlockSize + 1), dev \in Devices : SetMaxSeqLength(value, dev)
    \/ ResetParameters
    \/ \E rcl \in RopeCacheLengths, dtype \in CacheDTypes : SetKvCache(1, rcl, dtype)
    \/ ClearKvCache
    \/ \E rcl \in RopeCacheLengths : BuildKvCacheCall(rcl)
    \/ FullForward(IdxLens)
    \/ IncrementalForward(IdxLens)

Spec == Init /\ [][Next]_vars

\* ------------------------------------------ decoding sessions (rotary)
InitDecode ==
    \E cfg \in Configs :
        /\ cfg.position_emb_type = "rope"
        /\ GPT_init(cfg, "cpu")

NextDecode ==
    \/ SetKvCache(1, None, None)
    \/ ClearKvCache
    \/ FullForward(IdxSeqs)
    \/ IncrementalForward(IdxSeqs)

SpecDecode == InitDecode /\ [][NextDecode]_vars

\* ------------------------------------------ writes into one KV-cache
\* the key / value vector of token t as an activation of the given dtype
KVec(t, dtype) == act(Node("k", 1, <<Node("wte", t, <<>>)>>), dtype)
VVec(t, dtype) == act(Node("v", 1, <<Node("wte", t, <<>>)>>), dtype)

\* what a slot can hold: zero, or a pair written earlier; a float32 buffer
\* can hold values of either precision, a float16 buffer only float16 values
SlotFill(dtype) ==
    {[k |-> Zero, v |-> Zero]}
    \cup {[k |-> KVec(t, d), v |-> VVec(t, d)] :
            t \in Tokens, d \in IF dtype = "float16" THEN {"float16"} ELSE DTypes}

\* a model whose caches were set up for BlockSize, layer 1 holding any contents
InitKV ==
    \E dtype \in DTypes :
      \E fill \in [1..BlockSize -> SlotFill(dtype)] :
        LET cfg == CHOOSE c \in Configs :
                       c.position_emb_type = "rope" /\ c.rotary_percentage = 100
            rc == rope_cache(cfg, cfg.block_size, "cpu")
            fresh == Get(build_kv_cache(cfg, 1, cfg.block_size, Some(rc.cos.cols),
                                        Some(dtype)).cache)
            used == [fresh EXCEPT !.k = [s \in 1..BlockSize |-> fill[s].k],
                                  !.v = [s \in 1..BlockSize |-> fill[s].v]]
        IN  /\ config = cfg
            /\ max_seq_length = cfg.block_size
            /\ cos = Some(rc.cos)
            /\ sin = Some(rc.sin)
            /\ future_mask = None
            /\ mask_cache = Some(build_mask_cache(cfg.block_size))
            /\ kv_cache = [l \in 1..cfg.n_layer |-> IF l = 1 THEN Some(used) ELSE Some(fresh)]
            /\ last = Call("set_kv_cache",
                           [batch_size |-> 1, rope_cache_length |-> Some(rc.cos.cols),
                            dtype |-> Some(dtype)], NoErr, <<>>)
            /\ session = NoSession
            /\ lm_head = NormHead_init
            /\ unlatched = TRUE

\* in-range positions: strictly ascending, inside the cache
CachePosSeqs(n, cap) ==
    {p \in [1..n -> 0..(cap - 1)] : \A i \in 1..(n - 1) : p[i] < p[i + 1]}

\* gpt.transformer.h[0].attn.kv_cache(input_pos, k, v)
KVWrite(input_pos, toks, dtype) ==
    LET k == [i \in DOMAIN toks |-> KVec(toks[i], dtype)]
        v == [i \in DOMAIN toks |-> VVec(toks[i], dtype)]
        r == KVCache_forward(Get(kv_cache[1]), input_pos, k, v, dtype)
    IN  /\ kv_cache' = [kv_cache EXCEPT ![1] = Some(r.cache)]
        /\ last' = Call("KVCache.forward",
                        [input_pos |-> input_pos, k |-> k, v |-> v, dtype |-> dtype],
                        NoErr, [k |-> r.k, v |-> r.v])
        /\ UNCHANGED <<lm_head, unlatched, config, max_seq_length, cos, sin, future_mask, mask_cache, session>>

NextKV ==
    \E toks \in IdxSeqs, dtype \in DTypes :
        \E pos \in CachePosSeqs(Len(toks), Len(Get(kv_cache[1]).k)) :
            KVWrite(pos, toks, dtype)

SpecKV == InitKV /\ [][NextKV]_vars

\* ------------------------------------------------- NormHead (gpt.lm_head)
\* nn.functional.linear(hidden_states, norm_weight): the scores of every position
linear(hidden_states, norm_weight) ==
    [i \in DOMAIN hidden_states |-> Node("linear", 0, <<hidden_states[i], norm_weight>>)]

\* NormHead.forward: the head afterwards and the scores
NormHead_forward(self, hidden_states) ==
    IF self.training
    THEN [self |-> [self EXCEPT !.first_flag = TRUE],
          out |-> linear(hidden_states, normalize(self.weight))]
    ELSE IF self.first_flag
    THEN [self |-> [self EXCEPT !.first_flag = FALSE, !.weight = normalize(self.weight)],
          out |-> linear(hidden_states, normalize(self.weight))]
    ELSE [self |-> self, out |-> linear(hidden_states, self.weight)]

\* gpt.lm_head.train(mode): nn.Module sets self.training
HeadSetMode(mode) ==
    /\ lm_head' = [lm_head EXCEPT !.training = mode]
    /\ unlatched' = (mode \/ unlatched)
    /\ last' = Call(IF mode THEN "train" ELSE "eval", [value |-> 0], NoErr, <<>>)
    /\ UNCHANGED <<config, max_seq_length, cos, sin, future_mask, mask_cache, kv_cache, session>>

\* gpt.lm_head(hidden_states); the stored weight is normalized at most
\* MaxNormalize times
HeadForward(hidden_states) ==
    LET r == NormHead_forward(lm_head, hidden_states)
    IN  /\ r.self.weight.n <= MaxNormalize
        /\ lm_head' = r.self
        /\ unlatched' = lm_head.training
        /\ last' = Call("NormHead.forward",
                        [hidden_states |-> hidden_states, training |-> lm_head.training],
                        NoErr, r.out)
        /\ UNCHANGED <<config, max_seq_length, cos, sin, future_mask, mask_cache, kv_cache, session>>

\* the final hidden states of a token sequence, one per position
HiddenStates ==
    {[i \in DOMAIN idx |-> Node("ln_f", 0, <<Node("wte", idx[i], <<>>)>>)] : idx \in IdxSeqs}

InitNormHead ==
    GPT_init(CHOOSE c \in Configs : c.position_emb_type = "rope" /\ c.rotary_percentage = 100,
             "cpu")

NextNormHead ==
    \/ \E mode \in BOOLEAN : HeadSetMode(mode)
    \/ \E h \in HiddenStates : HeadForward(h)

SpecNormHead == InitNormHead /\ [][NextNormHead]_vars

\* ------------------------------------------- mixture of experts (mlp)
\* the configurations of a mixture-of-experts layer
MoEConfigs == {[n_expert |-> NExpert, n_expert_per_token |-> k] : k \in 1..NExpert}

MoEVariants == {"LLaMAMoE", "Qwen2MoE"}

\* torch.topk(router, k) of one token: k distinct experts, best first
TopK(cfg) ==
    {ix \in [1..cfg.n_expert_per_token -> 1..cfg.n_expert] :
        \A a, b \in DOMAIN ix : a # b => ix[a] # ix[b]}

\* probs[token, slot]: LLaMAMoE takes the softmax of the top-k router values,
\* Qwen2MoE the top-k of the softmax over all experts
moe_probs(variant, x, t, slot) ==
    Node(IF variant = "LLaMAMoE" THEN "softmax_of_topk" ELSE "topk_of_softmax", slot, <<x[t]>>)

\* torch.where(mask) for expert e: the (token, slot) pairs with
\* indices[token][slot] = e, in row-major order
moe_where(indices, k, e) ==
    LET pairs == [n \in 1..(Len(indices) * k) |->
                     [t |-> ((n - 1) \div k) + 1, s |-> ((n - 1) % k) + 1]]
        Hit(p) == indices[p.t][p.s] = e
    IN  SelectSeq(pairs, Hit)

\* (plain assignment in place of +=)
index_put_assign(y, token_idx, vals) ==
    [t \in DOMAIN y |->
        IF \E i \in DOMAIN token_idx : token_idx[i] = t
        THEN vals[CHOOSE i \in DOMAIN token_idx :
                      token_idx[i] = t /\ \A j \in DOMAIN token_idx : token_idx[j] = t => j <= i]
        ELSE y[t]]

\* y[token_idx] += vals: y[token_idx] is read, vals added, the sums written
\* back (for a token listed twice the last write would win)
index_put_add(y, token_idx, vals) ==
    [t \in DOMAIN y |->
        IF \E i \in DOMAIN token_idx : token_idx[i] = t
        THEN Node("add", 0,
                  <<y[t], vals[CHOOSE i \in DOMAIN token_idx :
                                 token_idx[i] = t /\ \A j \in DOMAIN token_idx : token_idx[j] = t => j <= i]>>)
        ELSE y[t]]

\* for mask, expert in zip(masks, self.experts): ...; acc holds y and, per
\* expert so far, the rows the expert was applied to
RECURSIVE expert_loop(_, _, _, _, _, _)
expert_loop(variant, cfg, e, x, indices, acc) ==
    IF e > cfg.n_expert THEN acc
    ELSE Bind(moe_where(indices, cfg.n_expert_per_token, e), LAMBDA hit :
         Bind([i \in DOMAIN hit |-> x[hit[i].t]], LAMBDA batch :
             expert_loop(variant, cfg, e + 1, x, indices,
                 [y |-> index_put_add(acc.y, [i \in DOMAIN hit |-> hit[i].t],
                            [i \in DOMAIN hit |->
                                Node("mul", 0, <<moe_probs(variant, x, hit[i].t, hit[i].s),
                                                 Node("expert", e, <<batch[i]>>)>>)]),
                  applied |-> Append(acc.applied, batch)])))

\* LLaMAMoE.forward / Qwen2MoE.forward on the rows x with the router's
\* choice indices; Qwen2MoE adds the gated shared expert to every row
MoE_forward(variant, cfg, x, indices) ==
    Bind(expert_loop(variant, cfg, 1, x, indices,
                     [y |-> [t \in DOMAIN x |-> Zero], applied |-> <<>>]), LAMBDA r :
        [err |-> NoErr, sparse |-> r.y, applied |-> r.applied,
         y |-> IF variant = "Qwen2MoE"
               THEN [t \in DOMAIN x |->
                        Node("add", 0, <<r.y[t], Node("shared_expert", 0, <<x[t]>>)>>)]
               ELSE r.y])

\* block.mlp(x)
MoEForward(variant, cfg, x, indices) ==
    Bind(MoE_forward(variant, cfg, x, indices), LAMBDA r :
        /\ last' = Call(variant, [cfg |-> cfg, x |-> x, indices |-> indices], r.err,
                        [y |-> r.y, sparse |-> r.sparse, applied |-> r.applied])
        /\ UNCHANGED <<config, max_seq_length, cos, sin, future_mask, mask_cache, kv_cache,
                       lm_head, session, unlatched>>)

\* the rows of x: the normalized residual stream of 1..BlockSize positions
MoEInputs == {[t \in 1..n |-> Node("norm_2", t - 1, <<>>)] : n \in 1..BlockSize}

\* a model whose mlp is about to be called with some rows and some routing
InitMoE ==
    \E variant \in MoEVariants, cfg \in MoEConfigs, x \in MoEInputs :
        \E indices \in [DOMAIN x -> TopK(cfg)] :
            LET c == CHOOSE c \in Configs :
                         c.position_emb_type = "rope" /\ c.rotary_percentage = 100
                rc == rope_cache(c, c.block_size, "cpu")
            IN  /\ config = c
                /\ max_seq_length = c.block_size
                /\ cos = Some(rc.cos)
                /\ sin = Some(rc.sin)
                /\ future_mask = None
                /\ mask_cache = None
                /\ kv_cache = [l \in 1..c.n_layer |-> None]
                /\ lm_head = NormHead_init
                /\ last = Call("mlp", [variant |-> variant, cfg |-> cfg, x |-> x,
                                       indices |-> indices], NoErr, <<>>)
                /\ session = NoSession
                /\ unlatched = TRUE

NextMoE ==
    /\ last.op = "mlp"
    /\ MoEForward(last.args.variant, last.args.cfg, last.args.x, last.args.indices)

SpecMoE == InitMoE /\ [][NextMoE]_vars

\* ================================================================== claims
Rope == config.position_emb_type = "rope"
Alibi == config.position_emb_type = "alibi"
CachesAbsent == IsNone(mask_cache) /\ \A l \in DOMAIN kv_cache : IsNone(kv_cache[l])
Tables == <<max_seq_length, cos, sin, future_mask>>
Program == <<config, max_seq_length, cos, sin, future_mask, mask_cache, kv_cache>>
IsIncremental(c) == c.op = "forward" /\ ~IsNone(c.args.input_pos)

\* the attention term of the last layer inside the score of one position
TopAttention(score) == score.kids[1].kids[1].kids[2]

\* the last call fed the tokens that end the in-order session
FedInOrder ==
    /\ last.op = "forward"
    /\ last.err = NoErr
    /\ session.inorder
    /\ Len(session.toks) >= last.args.T
    /\ last.args.input_pos
         = Some(NextPositions(Len(session.toks) - last.args.T, last.args.T))

\* C1: on a rope configuration, after cache setup for batch 1, feeding the
\* tokens in order with position_indices 0, 1, ..., n-1 gives at every
\* position t the score of the full pass over the same n tokens: the query
\* uses rotary row t and attends to exactly the keys and values written for
\* positions 0..t, every later cache slot being masked out.
C1_IncrementalEqualsFullPass ==
    (Rope /\ FedInOrder) =>
        LET n == Len(session.toks)
            T == last.args.T
            full == GPT_forward(config, Self, session.toks, None, session.dtype)
        IN  /\ full.err = NoErr
            /\ \A i \in 1..T :
                 LET t == n - T + i - 1
                     a == TopAttention(last.out[i])
                 IN  /\ last.out[i] = full.out[t + 1]
                     /\ a.kids[1].kids[2] = Node("cos", t, <<>>)
                     /\ a.kids[1].kids[3] = Node("sin", t, <<>>)
                     /\ Len(a.kids) = 1 + (t + 1)

C1_Witness ==
    /\ Rope /\ FedInOrder
    /\ last.args.T = 1
    /\ Len(session.toks) = BlockSize
    /\ \E i, j \in DOMAIN session.toks : session.toks[i] # session.toks[j]

\* C2 (as stated): an incremental forward call made while the caches are not
\* built fails with CacheNotInitialized, returns no scores and leaves the
\* mask cache and every layer's KV-cache absent.
C2_Original ==
    (IsIncremental(last) /\ IsNone(mask_cache)) =>
        /\ last.err \in CacheNotInitialized
        /\ last.out = <<>>
        /\ CachesAbsent

\* C2 (amended): an incremental forward call made while the caches are not
\* built returns no scores and leaves the mask cache and every layer's
\* KV-cache absent; it fails with CacheNotInitialized when its sequence is no
\* longer than the active length, and with SequenceTooLong when it is longer.
C2_NoCacheIncrementalFails ==
    (IsIncremental(last) /\ IsNone(mask_cache)) =>
        /\ last.out = <<>>
        /\ CachesAbsent
        /\ last.args.T <= max_seq_length => last.err \in CacheNotInitialized
        /\ last.args.T > max_seq_length => last.err \in SequenceTooLong

C2_Witness ==
    /\ IsIncremental(last)
    /\ CachesAbsent
    /\ last.args.T <= max_seq_length
    /\ last.err = ErrGptNeedKvCache

\* C3: a forward call whose sequence is longer than the active length fails
\* with SequenceTooLong in full-pass and in incremental mode, returns nothing,
\* and modifies no KV-cache slot, mask cache or positional table.
C3_TooLongFailsFirst ==
    [][ (last'.op = "forward" /\ last'.args.T > max_seq_length) =>
            /\ last'.err = ErrCannotForward
            /\ last'.out = <<>>
            /\ UNCHANGED Program ]_vars

C3_Witness ==
    /\ IsIncremental(last)
    /\ last.args.T > max_seq_length
    /\ last.err \in SequenceTooLong
    /\ ~IsNone(mask_cache)
    /\ \E l \in DOMAIN kv_cache : \E s \in DOMAIN Get(kv_cache[l]).k :
           Get(kv_cache[l]).k[s] # Zero

\* C4: the active-length setter rejects every value above block_size with an
\* error and leaves the active length and the positional caches as they
\* were; the active length is never greater than block_size.
C4_SetterRejectsAboveBlockSize ==
    /\ [](max_seq_length <= config.block_size)
    /\ [][ (last'.op = "max_seq_length" /\ last'.args.value > config.block_size) =>
               /\ last'.err \in SequenceTooLong
               /\ UNCHANGED Tables ]_vars

C4_Witness ==
    /\ last.op = "max_seq_length"
    /\ last.args.value > config.block_size
    /\ last.err = ErrCannotAttend
    /\ max_seq_length < config.block_size

\* C5: with rotary encoding the cos and sin tables always have as many rows
\* as the active length (the setter rebuilds them on the first call and when
\* the length differs), and an accepted setter call replaces a placeholder
\* table (meta device) by one built on the current default device.
C5_RopeTableRowsEqualActiveLength ==
    /\ [](Rope => /\ ~IsNone(cos) /\ ~IsNone(sin)
                  /\ cos_size0(Get(cos)) = max_seq_length
                  /\ cos_size0(Get(sin)) = max_seq_length)
    /\ [][ (Rope /\ last'.op = "max_seq_length" /\ last'.err = NoErr) =>
               /\ max_seq_length' = last'.args.value
               /\ Get(cos).device = "meta" =>
                     /\ Get(cos').device = last'.args.default_device
                     /\ Get(sin').device = last'.args.default_device ]_vars

C5_Witness ==
    /\ Rope
    /\ last.op = "max_seq_length"
    /\ last.err = NoErr
    /\ last.args.value < config.block_size
    /\ cos_size0(Get(cos)) = last.args.value
    /\ Get(cos).device = "cpu"

\* C6: with alibi encoding the bias mask's sequence extent always equals the
\* current active length.
C6_AlibiMaskExtentEqualsActiveLength ==
    Alibi => /\ Get(future_mask).shape[2] = max_seq_length
             /\ Get(future_mask).shape[3] = max_seq_length

\* C7: right after a successful cache setup every layer holds a KV-cache
\* whose sequence capacity is the current active length, and the mask cache
\* is present with that extent.
C7_SetupSizesCachesToActiveLength ==
    (last.op = "set_kv_cache" /\ last.err = NoErr) =>
        /\ \A l \in 1..config.n_layer :
             /\ ~IsNone(kv_cache[l])
             /\ Get(kv_cache[l]).k_shape[3] = max_seq_length
             /\ Get(kv_cache[l]).v_shape[3] = max_seq_length
             /\ Len(Get(kv_cache[l]).k) = max_seq_length
             /\ Len(Get(kv_cache[l]).v) = max_seq_length
        /\ ~IsNone(mask_cache)
        /\ Len(Get(mask_cache)) = max_seq_length
        /\ mask_size3(Get(mask_cache)) = max_seq_length

C7_Witness ==
    /\ last.op = "set_kv_cache"
    /\ last.err = NoErr
    /\ max_seq_length < config.block_size
    /\ mask_size3(Get(mask_cache)) = max_seq_length

PartialRotary == Rope /\ config.rotary_percentage < 100

\* C8 (as stated): the Model's cache setup with rope_cache_length unset on a
\* rotary configuration with rotary percentage below 1.0 fails with
\* MissingRopeCacheLength and builds no KV-cache and no mask cache.
C8_Original ==
    (PartialRotary /\ last.op = "set_kv_cache" /\ IsNone(last.args.rope_cache_length)) =>
        /\ last.err \in MissingRopeCacheLength
        /\ CachesAbsent

\* C8 (amended): on such a configuration the Model's cache setup with
\* rope_cache_length unset does not fail: it takes the rotary table's width
\* as the length and builds every layer's KV-cache and the mask cache. Only
\* the Attention unit's build_kv_cache, called with rope_cache_length unset,
\* fails with MissingRopeCacheLength, and it builds no cache.
C8_SetupDefaultsRopeCacheLength ==
    PartialRotary =>
        /\ (last.op = "set_kv_cache" /\ IsNone(last.args.rope_cache_length)) =>
              /\ last.err = NoErr
              /\ ~IsNone(mask_cache)
              /\ \A l \in 1..config.n_layer :
                   /\ ~IsNone(kv_cache[l])
                   /\ Get(kv_cache[l]).k_shape[4]
                        = cos_size_last(Get(cos)) + config.head_size - config.rope_n_elem
        /\ (last.op = "build_kv_cache" /\ IsNone(last.args.rope_cache_length)) =>
              /\ last.err \in MissingRopeCacheLength
              /\ IsNone(last.out)

C8_Witness ==
    /\ PartialRotary
    /\ last.op = "set_kv_cache"
    /\ IsNone(last.args.rope_cache_length)
    /\ last.err = NoErr
    /\ ~CachesAbsent

\* C9: cache teardown never fails and leaves the mask cache and every
\* layer's KV-cache absent, touching nothing else; a second teardown right
\* after changes nothing; and while the caches are absent an incremental
\* forward fails, only cache setup making them present again.
C9_TeardownIdempotent ==
    [][ /\ last'.op = "clear_kv_cache" =>
              /\ last'.err = NoErr
              /\ CachesAbsent'
              /\ UNCHANGED <<config, max_seq_length, cos, sin, future_mask>>
        /\ (last.op = "clear_kv_cache" /\ last'.op = "clear_kv_cache") => UNCHANGED vars
        /\ (CachesAbsent /\ IsIncremental(last')) =>
              /\ last'.err # NoErr
              /\ last'.out = <<>>
              /\ CachesAbsent'
        /\ (CachesAbsent /\ ~CachesAbsent') => last'.op = "set_kv_cache" ]_vars

C9_Witness ==
    /\ last.op = "clear_kv_cache"
    /\ last.err = NoErr
    /\ CachesAbsent
    /\ max_seq_length < config.block_size

\* C10: writing the same key and value vectors to the same in-range
\* positions a second time leaves the key and value buffers exactly as the
\* first write left them, and returns the same buffers.
C10_SecondWriteChangesNothing ==
    last.op = "KVCache.forward" =>
        LET again == KVCache_forward(Get(kv_cache[1]), last.args.input_pos,
                                     last.args.k, last.args.v, last.args.dtype)
        IN  /\ again.cache = Get(kv_cache[1])
            /\ again.k = last.out.k
            /\ again.v = last.out.v

\* a float16 write of one position, another slot holding a written
\* (non-zero) value in half precision
C10_Witness ==
    /\ last.op = "KVCache.forward"
    /\ last.args.dtype = "float16"
    /\ Len(last.args.input_pos) = 1
    /\ \E s \in DOMAIN Get(kv_cache[1]).k :
         /\ s - 1 \notin Range(last.args.input_pos)
         /\ Get(kv_cache[1]).k[s].op = "half"
         /\ Get(kv_cache[1]).k[s].kids # <<>>

\* the token sequences a and b agree on positions 0..t
AgreeUpTo(a, b, t) ==
    /\ Len(a) > t
    /\ Len(b) > t
    /\ \A i \in 1..(t + 1) : a[i] = b[i]

\* C11: a successful full pass (no position_indices) is causal: any other
\* full pass on the same model whose tokens agree with it on positions 0..t
\* returns the same score at position t, for every t.
C11_FullPassIsCausal ==
    (last.op = "forward" /\ IsNone(last.args.input_pos) /\ last.err = NoErr) =>
        \A other \in IdxSeqs :
            LET r == GPT_forward(config, Self, other, None, last.args.dtype)
            IN  r.err = NoErr =>
                    \A t \in 0..(Len(other) - 1) :
                        AgreeUpTo(last.args.idx, other, t) => r.out[t + 1] = last.out[t + 1]

\* C12: a training-mode call of the NormHead scores with a freshly
\* normalized weight and leaves the stored weight alone; an inference-mode
\* call normalizes and overwrites the stored weight exactly when it is the
\* first inference-mode call since construction or since the mode flag was
\* training, and every other inference-mode call scores with the stored
\* weight and leaves it unchanged.
C12_NormHeadLatch ==
    [][ last'.op = "NormHead.forward" =>
          LET h == last'.args.hidden_states
              w == lm_head.weight
          IN  /\ lm_head.training =>
                    /\ lm_head'.weight = w
                    /\ last'.out = linear(h, normalize(w))
              /\ (~lm_head.training /\ unlatched) =>
                    /\ lm_head'.weight = normalize(w)
                    /\ last'.out = linear(h, normalize(w))
              /\ (~lm_head.training /\ ~unlatched) =>
                    /\ lm_head'.weight = w
                    /\ last'.out = linear(h, w) ]_vars

\* the buffer a row was accumulated into, and the contributions added to it
RECURSIVE Base(_)
Base(y) == IF y.op = "add" THEN Base(y.kids[1]) ELSE y

RECURSIVE Contributions(_)
Contributions(y) ==
    IF y.op = "add" THEN Append(Contributions(y.kids[1]), y.kids[2]) ELSE <<>>

\* C13: in both mixture-of-experts variants the call raises no error and,
\* for every token, the sparse output is a zero buffer plus exactly
\* n_expert_per_token contributions, one per selected expert, each the
\* expert's output on that token weighted by the token's probability for
\* that selection; every expert is applied to exactly the tokens routed to
\* it, an expert with no tokens to an empty batch that contributes nothing.
C13_SparseOutputFromSelectedExperts ==
    last.op \in MoEVariants =>
        LET cfg == last.args.cfg
            x == last.args.x
            ix == last.args.indices
            k == cfg.n_expert_per_token
        IN  /\ last.err = NoErr
            /\ \A t \in DOMAIN x :
                  LET cs == Contributions(last.out.sparse[t])
                  IN  /\ Base(last.out.sparse[t]) = Zero
                      /\ Len(cs) = k
                      /\ \A sl \in 1..k :
                            Cardinality({i \in DOMAIN cs :
                                cs[i] = Node("mul", 0, <<moe_probs(last.op, x, t, sl),
                                                         Node("expert", ix[t][sl], <<x[t]>>)>>)}) = 1
            /\ Len(last.out.applied) = cfg.n_expert
            /\ \A e \in 1..cfg.n_expert :
                  LET RoutedTo(row) == \E t \in DOMAIN x : x[t] = row /\ e \in Range(ix[t])
                  IN  last.out.applied[e] = SelectSeq(x, RoutedTo)
            /\ last.op = "LLaMAMoE" => last.out.y = last.out.sparse
            /\ last.op = "Qwen2MoE" =>
                  \A t \in DOMAIN x :
                      last.out.y[t] = Node("add", 0, <<last.out.sparse[t],
                                                       Node("shared_expert", 0, <<x[t]>>)>>)

\* two tokens routed to the same two experts in opposite order, a third
\* expert receiving no token
C13_Witness ==
    /\ last.op = "Qwen2MoE"
    /\ last.err = NoErr
    /\ Len(last.args.x) = 2
    /\ last.args.cfg.n_expert_per_token = 2
    /\ last.args.indices[1][1] = last.args.indices[2][2]
    /\ last.args.indices[1][2] = last.args.indices[2][1]
    /\ \E e \in 1..last.args.cfg.n_expert : last.out.applied[e] = <<>>

\* C14: in every reachable state the mask cache is present if and only if
\* every layer's KV-cache is present (and absent if and only if every one is
\* absent), and when present its extent equals the sequence capacity of
\* every layer's KV-cache; the active-length setter changes neither; and no
\* forward call of the Model ends in the Attention unit's missing-cache error.
C14_MaskAndKvCachesTogether ==
    /\ [](/\ IsNone(mask_cache) <=> \A l \in 1..config.n_layer : IsNone(kv_cache[l])
          /\ ~IsNone(mask_cache) <=> \A l \in 1..config.n_layer : ~IsNone(kv_cache[l])
          /\ ~IsNone(mask_cache) =>
                \A l \in 1..config.n_layer :
                    /\ Len(Get(mask_cache)) = Get(kv_cache[l]).k_shape[3]
                    /\ mask_size3(Get(mask_cache)) = Get(kv_cache[l]).k_shape[3]
                    /\ mask_size3(Get(mask_cache)) = Get(kv_cache[l]).v_shape[3]
                    /\ mask_size3(Get(mask_cache)) = Len(Get(kv_cache[l]).k)
          /\ last.op = "forward" => last.err # ErrAttnNeedKvCache)
    /\ [][ last'.op = "max_seq_length" => UNCHANGED <<mask_cache, kv_cache>> ]_vars

\* a successful incremental forward on caches whose extent the setter has
\* left behind the active length
C14_Witness ==
    /\ IsIncremental(last)
    /\ last.err = NoErr
    /\ ~IsNone(mask_cache)
    /\ mask_size3(Get(mask_cache)) # max_seq_length
    /\ \A l \in 1..config.n_layer : Len(Get(kv_cache[l]).k) = mask_size3(Get(mask_cache))
====
